---- MODULE Spec2Model ----
(***************************************************************************)
(* Contact-form backend (src/main.py): POST /api/contact validates a JSON  *)
(* body into a ContactForm, sends one e-mail over SMTP and then appends    *)
(* one row to a Google Sheet after ensuring the sheet's header row.        *)
(*                                                                         *)
(* Each request is a process; requests interleave at the granularity of    *)
(* one call to an external service (SMTP session, Sheets API call).        *)
(*                                                                         *)
(* Representation of Python values                                         *)
(*   None                 [k |-> "None"]                                   *)
(*   a non-string JSON    [k |-> "int"]                                    *)
(*   value (a number)                                                      *)
(*   a str                [k |-> "str", lead, core, trail, txt] : `lead`   *)
(*                        whitespace characters, then `core` characters    *)
(*                        that begin and end with a non-whitespace one     *)
(*                        (their text is named by `txt`), then `trail`     *)
(*                        whitespace characters.  An all-whitespace str    *)
(*                        has core = 0 and trail = 0.                      *)
(*   a dict               a record; an absent key is absent from DOMAIN    *)
(***************************************************************************)
EXTENDS Integers, Sequences, FiniteSets, TLC

VARIABLES
    env,        \* the process environment (os.getenv)
    sheet,      \* Sheet1 of the spreadsheet: a sequence of rows of cell texts
    fmt,        \* TRUE when row 1 has been formatted bold/shaded/frozen
    pc,         \* pc[r]: where request r is in handle_contact_form
    req,        \* req[r]: the HTTP request being handled
    data,       \* data[r]: the dict `data` of handle_contact_form
    resp,       \* resp[r]: the HTTP response of request r
    calls,      \* calls[r]: the external calls request r has issued, in order
    mail,       \* mail[r]: the e-mails the SMTP server accepted from request r
    sentRow,    \* sentRow[r]: the `values` row request r appended
    appendedAt  \* appendedAt[r]: the sheet row request r's append landed in

vars == <<env, sheet, fmt, pc, req, data, resp, calls, mail, sentRow, appendedAt>>

----------------------------------------------------------------------------
(* Bounds of the model *)

NReq == 2       \* requests handled concurrently
MaxPad == 1     \* most whitespace characters around a submitted field

Reqs == 1..NReq

----------------------------------------------------------------------------
(* Python values *)

None == [k |-> "None"]
NonStr == [k |-> "int"]
Missing == [k |-> "missing"]     \* marks a key left out when a dict is built

Str(lead, core, trail, txt) ==
    [k |-> "str", lead |-> lead, core |-> core, trail |-> trail, txt |-> txt]

IsStr(v) == v.k = "str"

\* len(value)
PyLen(v) == v.lead + v.core + v.trail

\* str.strip()
Strip(v) == Str(0, v.core, 0, v.txt)

\* dict.get(key, default)
Get(d, key, default) == IF key \in DOMAIN d THEN d[key] ELSE default

\* format(value) inside an f-string
Render(v) == IF v = None THEN "None" ELSE v.txt

\* the dict holding the keys of f whose value is not Missing
Dict(f) == [key \in {x \in DOMAIN f : f[x] # Missing} |-> f[key]]

----------------------------------------------------------------------------
(* ContactForm: src/main.py 33-44 *)

NameMin == 2
NameMax == 200
MessageMin == 5
MessageMax == 5000
PhoneMax == 50

\* the addresses the e-mail syntax validator behind EmailStr accepts
WellFormedAddresses == {"jo@example.com"}

EmailSyntaxOK(v) == v.txt \in WellFormedAddresses

\* the validator without the strip: the value is checked as submitted
strip_whitespace_keep(value) == value

\* @field_validator("name", "message", "phone", mode="before")
strip_whitespace(value) == IF IsStr(value) THEN Strip(value) ELSE value

Err(loc, type) == << [loc |-> loc, type |-> type] >>

\* a required str field with Field(min_length, max_length), after the
\* before-validator has run
StrFieldErrors(body, loc, lo, hi) ==
    IF loc \notin DOMAIN body THEN Err(loc, "missing")
    ELSE LET v == strip_whitespace(body[loc]) IN
         IF ~IsStr(v) THEN Err(loc, "string_type")
         ELSE IF PyLen(v) < lo THEN Err(loc, "string_too_short")
         ELSE IF PyLen(v) > hi THEN Err(loc, "string_too_long")
         ELSE << >>

\* email: EmailStr
EmailErrors(body) ==
    IF "email" \notin DOMAIN body THEN Err("email", "missing")
    ELSE IF ~IsStr(body.email) THEN Err("email", "string_type")
    ELSE IF ~EmailSyntaxOK(body.email) THEN Err("email", "value_error")
    ELSE << >>

\* phone: Optional[str] = Field(default=None, max_length=50)
PhoneErrors(body) ==
    IF "phone" \notin DOMAIN body THEN << >>
    ELSE LET v == strip_whitespace(body.phone) IN
         IF v = None THEN << >>
         ELSE IF ~IsStr(v) THEN Err("phone", "string_type")
         ELSE IF PyLen(v) > PhoneMax THEN Err("phone", "string_too_long")
         ELSE << >>

\* e.errors() of the ValidationError ContactForm(**body) raises, in field order
ContactFormErrors(body) ==
    StrFieldErrors(body, "name", NameMin, NameMax)
      \o EmailErrors(body)
      \o StrFieldErrors(body, "message", MessageMin, MessageMax)
      \o PhoneErrors(body)

\* ContactForm(**body).model_dump() for a body without errors
ContactFormDump(body) ==
    [name    |-> strip_whitespace(body.name),
     email   |-> body.email,
     message |-> strip_whitespace(body.message),
     phone   |-> IF "phone" \in DOMAIN body THEN strip_whitespace(body.phone)
                 ELSE None]

----------------------------------------------------------------------------
(* Inputs: request bodies and requests *)

NotJSON == [k |-> "notjson"]          \* request.json() raises
JsonList == [k |-> "list"]            \* valid JSON that is not an object
JsonObject(d) == [k |-> "dict", d |-> d]

Pads == 0..MaxPad

\* the strs with a core of one of the lengths `cores`, padded with whitespace
StrVals(cores, txt) ==
    {Str(l, c, t, txt) : <<l, c, t>> \in
        {x \in Pads \X cores \X Pads : x[2] = 0 => x[3] = 0}}

Odd == {Missing, None, NonStr}

NameVals == Odd \cup StrVals({0, NameMin - 1, NameMin, NameMax, NameMax + 1}, "<name>")
MessageVals ==
    Odd \cup StrVals({0, MessageMin - 1, MessageMin, MessageMax, MessageMax + 1},
                     "<message>")
PhoneVals == Odd \cup StrVals({0, 1, PhoneMax, PhoneMax + 1}, "<phone>")
EmailVals == Odd \cup {Str(0, 14, 0, "jo@example.com"), Str(0, 3, 0, "bad")}

Body(n, e, m, p) ==
    JsonObject(Dict([name |-> n, email |-> e, message |-> m, phone |-> p]))

AllBodies ==
    {NotJSON, JsonList} \cup
    {Body(n, e, m, p) : <<n, e, m, p>> \in NameVals \X EmailVals \X MessageVals \X PhoneVals}

Request(body, xff, client, ua) ==
    [body |-> body, xff |-> xff, client |-> client, ua |-> ua]

GoodName == Str(0, 6, 0, "Jo Doe")
GoodEmail == Str(0, 14, 0, "jo@example.com")
GoodMessage == Str(0, 11, 0, "Hello there")
GoodPhone == Str(1, 8, 1, "555 0100")
Host == Str(0, 9, 0, "10.0.0.7")
Forwarded == Str(0, 11, 0, "203.0.113.9")
Agent == Str(0, 7, 0, "Mozilla")

\* the requests the handler is driven with
SampleRequests ==
    { Request(NotJSON, None, Host, Agent),
      Request(JsonList, None, Host, Agent),
      Request(Body(Str(0, 1, 0, "J"), Str(0, 3, 0, "bad"), Str(0, 2, 0, "hi"), Missing),
              None, Host, Agent),
      Request(Body(GoodName, GoodEmail, GoodMessage, Missing), None, Host, Agent),
      Request(Body(GoodName, GoodEmail, GoodMessage, None), Forwarded, Host, None),
      Request(Body(GoodName, GoodEmail, GoodMessage, GoodPhone), None, None, Agent) }

\* every body with a fixed set of headers
AllRequests == {Request(b, None, Host, Agent) : b \in AllBodies}

----------------------------------------------------------------------------
(* The process environment *)

EnvSet == Str(0, 1, 0, "set")
EnvEmpty == Str(0, 0, 0, "")

\* truth value of a str or None
Truthy(v) == v # None /\ PyLen(v) > 0

FullEnv ==
    [SMTP_USER |-> EnvSet, SMTP_PASS |-> EnvSet,
     GOOGLE_SHEET_ID |-> EnvSet, GOOGLE_CLIENT_EMAIL |-> EnvSet,
     GOOGLE_PRIVATE_KEY |-> EnvSet, GOOGLE_PROJECT_ID |-> EnvSet]

EnvNames == DOMAIN FullEnv

\* the full configuration, and every configuration with one variable unset
\* (None) or set to the empty string
EnvCases ==
    {FullEnv} \cup {[FullEnv EXCEPT ![n] = v] : n \in EnvNames, v \in {None, EnvEmpty}}

\* os.getenv(name, default)
Getenv(e, name, default) == IF e[name] = None THEN default ELSE e[name]

\* send_email: all([smtp_user, smtp_pass])
SmtpConfigured(e) ==
    Truthy(Getenv(e, "SMTP_USER", None)) /\ Truthy(Getenv(e, "SMTP_PASS", None))

\* the configuration check looking at the sheet id alone
LedgerConfiguredSheetOnly(e) == Truthy(Getenv(e, "GOOGLE_SHEET_ID", None))

\* append_to_sheet: all([sheet_id, client_email, private_key, project_id])
LedgerConfigured(e) ==
    /\ Truthy(Getenv(e, "GOOGLE_SHEET_ID", None))
    /\ Truthy(Getenv(e, "GOOGLE_CLIENT_EMAIL", None))
    /\ Truthy(Getenv(e, "GOOGLE_PRIVATE_KEY", EnvEmpty))
    /\ Truthy(Getenv(e, "GOOGLE_PROJECT_ID", None))

----------------------------------------------------------------------------
(* The spreadsheet *)

headers == <<"Timestamp", "Name", "Email", "Phone", "Message", "IP", "User Agent">>
UpperHeaders == <<"TIMESTAMP", "NAME", "EMAIL", "PHONE", "MESSAGE", "IP", "USER AGENT">>
OtherHeaders == <<"Date", "Name", "Email", "Phone", "Message", "IP", "User Agent">>

LowerTable ==
    [s \in {headers[i] : i \in 1..7} \cup {UpperHeaders[i] : i \in 1..7} \cup {"Date"} |->
        CASE s \in {"Timestamp", "TIMESTAMP"} -> "timestamp"
          [] s \in {"Name", "NAME"} -> "name"
          [] s \in {"Email", "EMAIL"} -> "email"
          [] s \in {"Phone", "PHONE"} -> "phone"
          [] s \in {"Message", "MESSAGE"} -> "message"
          [] s = "IP" -> "ip"
          [] s \in {"User Agent", "USER AGENT"} -> "user agent"
          [] s = "Date" -> "date"]

\* str.lower(); the texts of submitted cells are not changed by it
Lower(s) == IF s \in DOMAIN LowerTable THEN LowerTable[s] ELSE s

LowerAll(row) == [i \in 1..Len(row) |-> Lower(row[i])]

\* values().get(range='Sheet1!A1:G1'): result.get('values', [[]])[0]
ValuesGetRow1(s) == IF Len(s) = 0 THEN << >> ELSE s[1]

\* ensure_sheet_header line 68 negated: the header is there and correct
HeaderMatches(existing_headers) ==
    existing_headers # << >> /\ LowerAll(existing_headers) = LowerAll(headers)

\* values().update(range='Sheet1!A1:G1', body={'values': [row]})
ValuesUpdateRow1(s, row) == IF Len(s) = 0 THEN <<row>> ELSE [s EXCEPT ![1] = row]

\* an append that writes over the last filled row instead of below it
ValuesAppendOverLast(s, row) == IF Len(s) = 0 THEN <<row>> ELSE [s EXCEPT ![Len(s)] = row]

\* values().append(range='Sheet1!A1'): the row goes to the first empty row
ValuesAppend(s, row) == Append(s, row)

\* the text a cell holds after a value is written to it (null leaves it empty)
CellText(v) == IF v = None THEN "" ELSE v.txt

SheetCases == {<< >>, <<headers>>, <<UpperHeaders>>, <<OtherHeaders>>}

----------------------------------------------------------------------------
(* handle_contact_form: parse, validate, enrich (src/main.py 186-202) *)

NoRequest == [k |-> "none"]
NoData == [k |-> "none"]
NoResp == [status |-> 0]

Resp200 == [status |-> 200, ok |-> TRUE, message |-> "Message sent successfully!"]
Resp400 == [status |-> 400, ok |-> FALSE, error |-> "Invalid request body."]
Resp422(errors) == [status |-> 422, ok |-> FALSE, errors |-> errors]
Resp500 == [status |-> 500, ok |-> FALSE, error |-> "Failed to send message."]

Respond(r, response) ==
    /\ resp' = [resp EXCEPT ![r] = response]
    /\ pc' = [pc EXCEPT ![r] = "done"]

Log(r, entries) == calls' = [calls EXCEPT ![r] = @ \o entries]

\* the try block with every failure reported as a validation failure
ParseFailureAll422(body) ==
    IF body.k # "dict" THEN Resp422(<< >>)
    ELSE IF ContactFormErrors(body.d) # << >> THEN Resp422(ContactFormErrors(body.d))
    ELSE NoResp

\* the try block of lines 186-198: the HTTPException raised, or NoResp
ParseFailure(body) ==
    IF body.k # "dict" THEN Resp400
    ELSE IF ContactFormErrors(body.d) # << >> THEN Resp422(ContactFormErrors(body.d))
    ELSE NoResp

\* lines 200-202
Enrich(d, q) ==
    [name |-> d.name, email |-> d.email, message |-> d.message, phone |-> d.phone,
     ip |-> IF Truthy(q.xff) THEN q.xff
            ELSE IF q.client # None THEN q.client ELSE Str(0, 7, 0, "unknown"),
     userAgent |-> IF q.ua # None THEN q.ua ELSE Str(0, 7, 0, "Unknown")]

HandleBody(r, q) ==
    /\ pc[r] = "idle"
    /\ req' = [req EXCEPT ![r] = q]
    /\ IF ParseFailure(q.body) # NoResp
         THEN /\ Respond(r, ParseFailure(q.body))
              /\ UNCHANGED data
         ELSE /\ data' = [data EXCEPT ![r] = Enrich(ContactFormDump(q.body.d), q)]
              /\ pc' = [pc EXCEPT ![r] = "send"]
              /\ UNCHANGED resp
    /\ UNCHANGED <<env, sheet, fmt, calls, mail, sentRow, appendedAt>>

Receive(r) == pc[r] = "idle" /\ \E q \in SampleRequests : HandleBody(r, q)

ReceiveAny(r) == pc[r] = "idle" /\ \E q \in AllRequests : HandleBody(r, q)

----------------------------------------------------------------------------
(* send_email (src/main.py 152-181), called at line 205 *)

NA == Str(0, 3, 0, "N/A")

\* the message built at lines 163-177
EmailOf(d) ==
    [subject  |-> Render(d.name),
     reply_to |-> Render(d.email),
     name     |-> Render(d.name),
     email    |-> Render(d.email),
     phone    |-> Render(Get(d, "phone", NA)),
     message  |-> Render(d.message),
     ip       |-> Render(Get(d, "ip", None)),
     ua       |-> Render(Get(d, "userAgent", None))]

\* line 158: the credentials are not configured; ValueError, caught at 208
SendEmailNoCredentials(r) ==
    /\ pc[r] = "send"
    /\ ~SmtpConfigured(env)
    /\ Log(r, <<"send_email", "send_email raised">>)
    /\ Respond(r, Resp500)
    /\ UNCHANGED <<env, sheet, fmt, req, data, mail, sentRow, appendedAt>>

\* a login failure that is not propagated: the handler goes on to the ledger
SendEmailLoginFailsSwallowed(r) ==
    /\ pc[r] = "send"
    /\ SmtpConfigured(env)
    /\ Log(r, <<"send_email", "smtp.login", "send_email raised">>)
    /\ pc' = [pc EXCEPT ![r] = "ledger"]
    /\ UNCHANGED <<env, sheet, fmt, req, data, resp, mail, sentRow, appendedAt>>

\* lines 179-180: SMTP_SSL(...) or server.login raises
SendEmailLoginFails(r) ==
    /\ pc[r] = "send"
    /\ SmtpConfigured(env)
    /\ Log(r, <<"send_email", "smtp.login", "send_email raised">>)
    /\ Respond(r, Resp500)
    /\ UNCHANGED <<env, sheet, fmt, req, data, mail, sentRow, appendedAt>>

\* line 181: server.send_message raises, the message is not accepted
SendEmailSendFails(r) ==
    /\ pc[r] = "send"
    /\ SmtpConfigured(env)
    /\ Log(r, <<"send_email", "smtp.login", "smtp.send_message", "send_email raised">>)
    /\ Respond(r, Resp500)
    /\ UNCHANGED <<env, sheet, fmt, req, data, mail, sentRow, appendedAt>>

\* line 179, leaving the with block: the message was accepted, the server
\* answers QUIT with a code other than 221 and SMTP.__exit__ raises
\* SMTPResponseException
SendEmailQuitFails(r) ==
    /\ pc[r] = "send"
    /\ SmtpConfigured(env)
    /\ Log(r, <<"send_email", "smtp.login", "smtp.send_message", "smtp.quit",
                 "send_email raised">>)
    /\ mail' = [mail EXCEPT ![r] = Append(@, EmailOf(data[r]))]
    /\ Respond(r, Resp500)
    /\ UNCHANGED <<env, sheet, fmt, req, data, sentRow, appendedAt>>

\* send_email returns
SendEmailOK(r) ==
    /\ pc[r] = "send"
    /\ SmtpConfigured(env)
    /\ Log(r, <<"send_email", "smtp.login", "smtp.send_message", "smtp.quit",
                 "send_email returned">>)
    /\ mail' = [mail EXCEPT ![r] = Append(@, EmailOf(data[r]))]
    /\ pc' = [pc EXCEPT ![r] = "ledger"]
    /\ UNCHANGED <<env, sheet, fmt, req, data, resp, sentRow, appendedAt>>

----------------------------------------------------------------------------
(* append_to_sheet and ensure_sheet_header (src/main.py 53-149), called at *)
(* line 206.  Every exception is caught at line 104 or 148, after which    *)
(* the handler returns the success response of line 207.                   *)

\* format_ist_timestamp(): "%d-%m-%Y %I:%M:%S %p"
format_ist_timestamp == Str(0, 22, 0, "dd-mm-YYYY HH:MM:SS PM")

Empty == Str(0, 0, 0, "")

\* lines 135-139
RowValues(d) ==
    << format_ist_timestamp, Get(d, "name", None), Get(d, "email", None),
       Get(d, "phone", Empty), Get(d, "message", None),
       Get(d, "ip", Empty), Get(d, "userAgent", Empty) >>

\* the cells a row of values fills
RowCells(values) == [i \in 1..Len(values) |-> CellText(values[i])]

\* lines 115-117: the configuration is incomplete, nothing is done
LedgerNotConfigured(r) ==
    /\ pc[r] = "ledger"
    /\ ~LedgerConfigured(env)
    /\ Log(r, <<"append_to_sheet", "append_to_sheet returned">>)
    /\ Respond(r, Resp200)
    /\ UNCHANGED <<env, sheet, fmt, req, data, mail, sentRow, appendedAt>>

\* lines 120-130: from_service_account_info or build raises; caught at 148
LedgerCredentialsFail(r) ==
    /\ pc[r] = "ledger"
    /\ LedgerConfigured(env)
    /\ Log(r, <<"append_to_sheet", "credentials", "failed", "append_to_sheet returned">>)
    /\ Respond(r, Resp200)
    /\ UNCHANGED <<env, sheet, fmt, req, data, mail, sentRow, appendedAt>>

\* lines 60-63: the read of row 1 raises; caught at 104, the append follows
HeaderGetFails(r) ==
    /\ pc[r] = "ledger"
    /\ LedgerConfigured(env)
    /\ Log(r, <<"append_to_sheet", "credentials", "values.get", "failed">>)
    /\ pc' = [pc EXCEPT ![r] = "append"]
    /\ UNCHANGED <<env, sheet, fmt, req, data, resp, mail, sentRow, appendedAt>>

\* lines 60-68: row 1 is read and matches the header
HeaderGetMatches(r) ==
    /\ pc[r] = "ledger"
    /\ LedgerConfigured(env)
    /\ HeaderMatches(ValuesGetRow1(sheet))
    /\ Log(r, <<"append_to_sheet", "credentials", "values.get">>)
    /\ pc' = [pc EXCEPT ![r] = "append"]
    /\ UNCHANGED <<env, sheet, fmt, req, data, resp, mail, sentRow, appendedAt>>

\* lines 60-69: row 1 is read and is empty or differs from the header
HeaderGetDiffers(r) ==
    /\ pc[r] = "ledger"
    /\ LedgerConfigured(env)
    /\ ~HeaderMatches(ValuesGetRow1(sheet))
    /\ Log(r, <<"append_to_sheet", "credentials", "values.get">>)
    /\ pc' = [pc EXCEPT ![r] = "hdr_update"]
    /\ UNCHANGED <<env, sheet, fmt, req, data, resp, mail, sentRow, appendedAt>>

\* lines 71-76: the header write raises; caught at 104, the append follows
HeaderUpdateFails(r) ==
    /\ pc[r] = "hdr_update"
    /\ Log(r, <<"values.update", "failed">>)
    /\ pc' = [pc EXCEPT ![r] = "append"]
    /\ UNCHANGED <<env, sheet, fmt, req, data, resp, mail, sentRow, appendedAt>>

\* lines 71-76: row 1 is overwritten with the header titles
HeaderUpdateOK(r) ==
    /\ pc[r] = "hdr_update"
    /\ Log(r, <<"values.update">>)
    /\ sheet' = ValuesUpdateRow1(sheet, headers)
    /\ pc' = [pc EXCEPT ![r] = "hdr_format"]
    /\ UNCHANGED <<env, fmt, req, data, resp, mail, sentRow, appendedAt>>

\* lines 101-103: the formatting call raises; caught at 104
HeaderFormatFails(r) ==
    /\ pc[r] = "hdr_format"
    /\ Log(r, <<"batchUpdate", "failed">>)
    /\ pc' = [pc EXCEPT ![r] = "append"]
    /\ UNCHANGED <<env, sheet, fmt, req, data, resp, mail, sentRow, appendedAt>>

\* lines 79-103: row 1 is made bold, shaded and frozen
HeaderFormatOK(r) ==
    /\ pc[r] = "hdr_format"
    /\ Log(r, <<"batchUpdate">>)
    /\ fmt' = TRUE
    /\ pc' = [pc EXCEPT ![r] = "append"]
    /\ UNCHANGED <<env, sheet, req, data, resp, mail, sentRow, appendedAt>>

\* an append failure that escapes append_to_sheet and reaches line 208
AppendFailsPropagates(r) ==
    /\ pc[r] = "append"
    /\ Log(r, <<"values.append", "failed", "append_to_sheet raised">>)
    /\ Respond(r, Resp500)
    /\ UNCHANGED <<env, sheet, fmt, req, data, mail, sentRow, appendedAt>>

\* lines 142-147: the append raises; caught at 148
AppendFails(r) ==
    /\ pc[r] = "append"
    /\ Log(r, <<"values.append", "failed", "append_to_sheet returned">>)
    /\ Respond(r, Resp200)
    /\ UNCHANGED <<env, sheet, fmt, req, data, mail, sentRow, appendedAt>>

\* lines 135-147: the row is appended; line 207
AppendOK(r) ==
    /\ pc[r] = "append"
    /\ Log(r, <<"values.append", "append_to_sheet returned">>)
    /\ sheet' = ValuesAppend(sheet, RowCells(RowValues(data[r])))
    /\ sentRow' = [sentRow EXCEPT ![r] = RowValues(data[r])]
    /\ appendedAt' = [appendedAt EXCEPT ![r] = Len(sheet) + 1]
    /\ Respond(r, Resp200)
    /\ UNCHANGED <<env, fmt, req, data, mail>>

----------------------------------------------------------------------------
(* Specifications *)

InitRequests ==
    /\ fmt = FALSE
    /\ pc = [r \in Reqs |-> "idle"]
    /\ req = [r \in Reqs |-> NoRequest]
    /\ data = [r \in Reqs |-> NoData]
    /\ resp = [r \in Reqs |-> NoResp]
    /\ calls = [r \in Reqs |-> << >>]
    /\ mail = [r \in Reqs |-> << >>]
    /\ sentRow = [r \in Reqs |-> << >>]
    /\ appendedAt = [r \in Reqs |-> 0]

\* any configuration, any sheet, requests handled concurrently, external
\* calls free to fail
Init ==
    /\ env \in EnvCases
    /\ sheet \in SheetCases
    /\ InitRequests

Next ==
    \E r \in Reqs :
        \/ Receive(r)
        \/ SendEmailNoCredentials(r)
        \/ SendEmailLoginFails(r)
        \/ SendEmailSendFails(r)
        \/ SendEmailQuitFails(r)
        \/ SendEmailOK(r)
        \/ LedgerNotConfigured(r)
        \/ LedgerCredentialsFail(r)
        \/ HeaderGetFails(r)
        \/ HeaderGetMatches(r)
        \/ HeaderGetDiffers(r)
        \/ HeaderUpdateFails(r)
        \/ HeaderUpdateOK(r)
        \/ HeaderFormatFails(r)
        \/ HeaderFormatOK(r)
        \/ AppendFails(r)
        \/ AppendOK(r)

Spec == Init /\ [][Next]_vars

\* the full configuration, a sheet that is empty or has a correct header, and
\* no external call failing
InitNoFail ==
    /\ env = FullEnv
    /\ sheet \in {<< >>, <<headers>>, <<UpperHeaders>>}
    /\ InitRequests

NextNoFail ==
    \E r \in Reqs :
        \/ Receive(r)
        \/ SendEmailOK(r)
        \/ HeaderGetMatches(r)
        \/ HeaderGetDiffers(r)
        \/ HeaderUpdateOK(r)
        \/ HeaderFormatOK(r)
        \/ AppendOK(r)

SpecNoFail == InitNoFail /\ [][NextNoFail]_vars

\* the validator alone: one request, every body of AllBodies
InitValidate ==
    /\ env = FullEnv
    /\ sheet = << >>
    /\ InitRequests

NextValidate == ReceiveAny(1)

SpecValidate == InitValidate /\ [][NextValidate]_vars

----------------------------------------------------------------------------
(* Properties *)

Has(r, e) == \E i \in 1..Len(calls[r]) : calls[r][i] = e
Count(r, e) == Cardinality({i \in 1..Len(calls[r]) : calls[r][i] = e})

SheetCalls == {"values.get", "values.update", "batchUpdate", "values.append"}
LedgerCalls == {"append_to_sheet", "credentials"} \cup SheetCalls

\* C1: when send_email raises, append_to_sheet is never invoked for that
\* request (no credentials are built, no spreadsheet call is issued, no row
\* lands in the sheet) and the request is answered 500 with ok = FALSE and
\* the generic error message.
C1_EmailFailureSkipsLedger ==
    \A r \in Reqs :
        Has(r, "send_email raised") =>
            /\ \A e \in LedgerCalls : ~Has(r, e)
            /\ appendedAt[r] = 0
            /\ pc[r] = "done"
            /\ resp[r] = [status |-> 500, ok |-> FALSE, error |-> "Failed to send message."]

\* a request whose SMTP login failed, with the ledger fully configured
C1_Witness ==
    \E r \in Reqs :
        /\ Has(r, "smtp.login") /\ Has(r, "send_email raised")
        /\ \A n \in EnvNames : env[n] = EnvSet
        /\ resp[r].status = 500

\* C2: a request whose send_email call returned is answered 200 with
\* ok = TRUE and "Message sent successfully!" whatever failed in the ledger
\* step; append_to_sheet returns and never raises to the handler.
C2_LedgerFailureStillSucceeds ==
    \A r \in Reqs :
        (Has(r, "send_email returned") /\ pc[r] = "done") =>
            /\ resp[r] = [status |-> 200, ok |-> TRUE,
                          message |-> "Message sent successfully!"]
            /\ Has(r, "append_to_sheet returned")
            /\ ~Has(r, "append_to_sheet raised")

\* a request answered 200 although its header write and its row append
\* both failed
C2_Witness ==
    \E r \in Reqs :
        /\ resp[r].status = 200
        /\ Count(r, "failed") >= 2
        /\ Has(r, "values.update") /\ Has(r, "values.append")
        /\ appendedAt[r] = 0

\* C5: a request answered 400 or 422 has made no external call (no e-mail,
\* no spreadsheet call); 422 answers exactly the JSON objects that fail
\* field validation and carries their errors, 400 answers exactly the bodies
\* that are not JSON or not a JSON object.
C5_ParseFailuresBeforeCalls ==
    \A r \in Reqs :
        pc[r] # "idle" =>
            /\ resp[r].status \in {400, 422} =>
                   /\ calls[r] = << >>
                   /\ mail[r] = << >>
                   /\ appendedAt[r] = 0
            /\ resp[r].status = 400 <=> req[r].body.k \in {"notjson", "list"}
            /\ resp[r].status = 422 <=>
                   /\ req[r].body.k = "dict"
                   /\ ContactFormErrors(req[r].body.d) # << >>
            /\ resp[r].status = 422 => resp[r].errors # << >>

\* one request answered 400 and another answered 422
C5_Witness ==
    \E r1, r2 \in Reqs :
        /\ resp[r1].status = 400 /\ req[r1].body = JsonList
        /\ resp[r2].status = 422 /\ Len(resp[r2].errors) = 3

LedgerVars ==
    {"GOOGLE_SHEET_ID", "GOOGLE_CLIENT_EMAIL", "GOOGLE_PRIVATE_KEY", "GOOGLE_PROJECT_ID"}

\* C6: when one of the four ledger configuration values is absent or empty,
\* append_to_sheet returns without raising, builds no credentials and issues
\* no spreadsheet call, and the request whose e-mail was sent is answered 200.
C6_MissingLedgerConfigIsNoOp ==
    \A r \in Reqs :
        ((\E n \in LedgerVars : env[n] \in {None, EnvEmpty}) /\ Has(r, "append_to_sheet")) =>
            /\ calls[r][Len(calls[r])] = "append_to_sheet returned"
            /\ ~Has(r, "credentials")
            /\ \A e \in SheetCalls : ~Has(r, e)
            /\ appendedAt[r] = 0
            /\ Len(mail[r]) = 1
            /\ pc[r] = "done"
            /\ resp[r].status = 200 /\ resp[r].ok

\* a request answered 200 with only GOOGLE_PROJECT_ID unset
C6_Witness ==
    \E r \in Reqs :
        /\ env = [FullEnv EXCEPT !["GOOGLE_PROJECT_ID"] = None]
        /\ Has(r, "append_to_sheet returned")
        /\ resp[r].status = 200

\* the fields of a JSON object that ContactForm must reject, by the
\* whitespace-trimmed values (the trimmed length of a str is its core)
Offending(b) ==
    {f \in {"name"} : ~("name" \in DOMAIN b /\ IsStr(b.name)
                         /\ b.name.core >= 2 /\ b.name.core <= 200)}
    \cup {f \in {"email"} : ~("email" \in DOMAIN b /\ IsStr(b.email)
                               /\ b.email.txt \in WellFormedAddresses)}
    \cup {f \in {"message"} : ~("message" \in DOMAIN b /\ IsStr(b.message)
                                 /\ b.message.core >= 5 /\ b.message.core <= 5000)}
    \cup {f \in {"phone"} : ~("phone" \notin DOMAIN b \/ b.phone = None
                               \/ (IsStr(b.phone) /\ b.phone.core <= 50))}

Trimmed(v) == [k |-> "str", lead |-> 0, core |-> v.core, trail |-> 0, txt |-> v.txt]

\* C8: a JSON object is accepted exactly when its trimmed name has 2..200
\* characters, its email is a well-formed address, its trimmed message has
\* 5..5000 characters and its phone is absent, null or at most 50 characters
\* after trimming; the accepted record carries the trimmed name, message and
\* phone; a rejection is answered 422 with exactly one error entry per
\* offending field and none for a valid field.
C8_ValidationOnTrimmedValues ==
    \A r \in Reqs :
        (pc[r] # "idle" /\ req[r].body.k = "dict") =>
            LET b == req[r].body.d
                errs == IF resp[r].status = 422 THEN resp[r].errors ELSE << >>
            IN  /\ (resp[r].status # 422) <=> (Offending(b) = {})
                /\ resp[r].status \in {0, 422}
                /\ Len(errs) = Cardinality(Offending(b))
                /\ {errs[i].loc : i \in 1..Len(errs)} = Offending(b)
                /\ resp[r].status # 422 =>
                       /\ data[r].name = Trimmed(b.name)
                       /\ data[r].message = Trimmed(b.message)
                       /\ data[r].email = b.email
                       /\ data[r].phone =
                              IF "phone" \in DOMAIN b /\ b.phone # None
                                THEN Trimmed(b.phone) ELSE None

\* the body {name: 1 character, email: "bad", message: 4 characters} is
\* answered 422 with the three entries name, email, message
C8_Witness ==
    /\ req[1] # NoRequest
    /\ req[1].body = Body(Str(0, 1, 0, "<name>"), Str(0, 3, 0, "bad"),
                          Str(0, 4, 0, "<message>"), Missing)
    /\ resp[1].status = 422
    /\ [i \in 1..Len(resp[1].errors) |-> resp[1].errors[i].loc]
           = <<"name", "email", "message">>

\* C10: with no spreadsheet call failing and a sheet that starts empty or
\* with a correct header, under every interleaving of concurrent requests
\* each appended row lands below row 1 in a row of its own and stays there,
\* and when all requests are answered row 1 holds the canonical header and
\* the sheet holds exactly one data row per valid request.
C10_ConcurrentAppendsKeepRows ==
    /\ \A r \in Reqs :
           appendedAt[r] # 0 =>
               /\ appendedAt[r] > 1 /\ appendedAt[r] <= Len(sheet)
               /\ sheet[appendedAt[r]] = RowCells(sentRow[r])
               /\ HeaderMatches(sheet[1])
               /\ \A q \in Reqs \ {r} : appendedAt[q] # appendedAt[r]
    /\ (\A r \in Reqs : pc[r] = "done") =>
           /\ \A r \in Reqs : resp[r].status = 200 => appendedAt[r] # 0
           /\ Cardinality({r \in Reqs : resp[r].status = 200}) > 0 =>
                  /\ HeaderMatches(sheet[1])
                  /\ Len(sheet) = 1 + Cardinality({r \in Reqs : resp[r].status = 200})

\* two requests that both read an empty row 1, both wrote the header, and
\* both appended
C10_Witness ==
    /\ \A r \in Reqs : pc[r] = "done"
    /\ Cardinality({r \in Reqs : Has(r, "values.update") /\ appendedAt[r] # 0}) >= 2

\* C3: the ledger is append-only: once a submission's row has been written
\* to the sheet, no later step of any request overwrites or removes it.
C3_LedgerAppendOnly ==
    [][\A r \in Reqs :
          appendedAt[r] # 0 =>
              /\ appendedAt[r] <= Len(sheet')
              /\ sheet'[appendedAt[r]] = sheet[appendedAt[r]]]_vars

\* C4: whenever the row-append call is issued, row 1 of the sheet holds the
\* seven canonical titles (compared case-insensitively); and a request that
\* read a matching row 1 issues no header write and no formatting call.
C4_HeaderBeforeAppend ==
    [][\A r \in Reqs :
          /\ (pc[r] = "append" /\ pc'[r] = "done") =>
                 HeaderMatches(ValuesGetRow1(sheet))
          /\ (pc[r] = "ledger" /\ pc'[r] = "append" /\ HeaderMatches(ValuesGetRow1(sheet))
                /\ calls'[r][Len(calls'[r])] # "failed") =>
                 (~Has(r, "values.update") /\ ~Has(r, "batchUpdate"))']_vars

\* C7: for a valid submission without a phone (key omitted or null) that is
\* answered 200, the e-mail renders the phone as "N/A" and the appended row
\* has an empty Phone cell.
C7_AbsentPhonePlaceholders ==
    \A r \in Reqs :
        (/\ resp[r].status = 200
         /\ ("phone" \notin DOMAIN req[r].body.d \/ req[r].body.d.phone = None)) =>
            /\ \A i \in 1..Len(mail[r]) : mail[r][i].phone = "N/A"
            /\ appendedAt[r] # 0 =>
                   (sentRow[r][4] = Empty /\ sheet[appendedAt[r]][4] = "")

\* C9: nothing is retried: send_email is invoked at most once and the row
\* append is issued at most once per request; a request answered 200 has sent
\* exactly one e-mail and appended at most one row; a request answered 500
\* has sent no e-mail and appended no row.
C9_NoRetry ==
    \A r \in Reqs :
        /\ Count(r, "send_email") <= 1
        /\ Count(r, "values.append") <= 1
        /\ Len(mail[r]) <= 1
        /\ resp[r].status = 200 => Len(mail[r]) = 1
        /\ resp[r].status = 500 => (mail[r] = << >> /\ appendedAt[r] = 0)

====
